---- MODULE Spec2Model ----
(***************************************************************************)
(* Ule Msee backend (src/backend/main.py): the Groq completion client's    *)
(* retry loop (GroqClient.generate_response) and the bounded in-memory     *)
(* history log written by ask_question and read or changed by get_history, *)
(* delete_history_item and clear_history.                                  *)
(*                                                                         *)
(* Every request handler is a coroutine on one event loop: it runs without *)
(* interruption between two awaits.  A question request is suspended only  *)
(* in client.post (pc = "post") and in asyncio.sleep (pc = "sleep"); the   *)
(* other handlers have no suspension point and are single steps.           *)
(*                                                                         *)
(* Environment assumptions: the clock read by time.time() and              *)
(* datetime.now() does not run backwards, and uuid4 never repeats.         *)
(***************************************************************************)
EXTENDS Integers, Sequences, FiniteSets, TLC

\* ---------------------------------------------------------------- bounds
NumRequests == 3        \* question requests that may be issued
MaxTime == 3            \* the clock runs over 0..MaxTime seconds
\* main.py sets MAX_HISTORY_ITEMS = 1000; the model scales the capacity down
MAX_HISTORY_ITEMS == 2
MaxRetriesCfg == 4      \* values the max_retries attribute is set to in SpecCfg

\* ------------------------------------------------------ program constants
max_retries == 3

model == "llama3-70b-8192"
fallback_model == "llama3-8b-8192"

Requests == 1..NumRequests
Questions == {"q1", "q2"}
Contents == {"ans1", "ans2"}
Limits == {-1, 0, 1, 50}

\* ------------------------------------------------------ upstream outcomes
\* What one outbound client.post can end in: an HTTP response (status code
\* and the kind of body), a per-attempt timeout, or a network-level failure.
\* body: "choices"   JSON with a non-empty choices array (content = text)
\*       "empty"     JSON whose choices array is missing or empty
\*       "error_msg" JSON carrying error.message
\*       "text"      a body that is not JSON
Resp(s, b, c) == [kind |-> "response", status |-> s, body |-> b, content |-> c]
TimeoutOutcome == [kind |-> "timeout", status |-> 0, body |-> "", content |-> ""]
NetErrOutcome == [kind |-> "neterr", status |-> 0, body |-> "", content |-> ""]

Outcomes ==
    {Resp(s, "choices", c) : s \in {200, 201}, c \in Contents}
    \cup {Resp(200, "empty", ""), Resp(201, "empty", ""), Resp(200, "text", "")}
    \cup {Resp(s, "error_msg", "") : s \in {401, 403, 429, 500}}
    \cup {Resp(500, "text", "")}
    \cup {TimeoutOutcome, NetErrOutcome}

\* the outcomes drawn on a reconfigured client
CfgOutcomes ==
    {Resp(200, "choices", "ans1"), Resp(429, "error_msg", ""), Resp(500, "error_msg", ""),
     TimeoutOutcome, NetErrOutcome}

\* the outcomes drawn while several requests run concurrently
FewOutcomes == {Resp(200, "choices", "ans1"), Resp(429, "error_msg", "")}

\* --------------------------------------------------- generate_response
\* the client's max_retries attribute, set by GroqClient.__init__
\* the "question" of a request body as a sequence of characters
Whitespace == {" ", "\t"}
Texts ==
    {<<" ", "q", "1", "\t">>, <<"q", " ", "2">>, <<" ", "\t">>}

\* str.strip()
RECURSIVE lstrip(_)
lstrip(str) ==
    IF str # <<>> /\ Head(str) \in Whitespace THEN lstrip(Tail(str)) ELSE str

RECURSIVE rstrip(_)
rstrip(str) ==
    IF str # <<>> /\ str[Len(str)] \in Whitespace
    THEN rstrip(SubSeq(str, 1, Len(str) - 1))
    ELSE str

strip_left_only(str) == lstrip(str)

strip(str) == rstrip(lstrip(str))

\* GROQ_API_KEY as a sequence of characters; os.getenv gives None when the
\* variable is unset, which `not self.api_key` treats like the empty string
Placeholder == <<"your_groq_api_key_here">>
Prefix == <<"g", "s", "k", "_">>
GoodKey == <<"g", "s", "k", "_", "1">>
Keys ==
    {<<>>, Placeholder, <<"s", "k", "_", "1">>, <<"g", "s", "k">>,
     <<"1", "g", "s", "k", "_">>, GoodKey}

\* str.startswith
startswith(str, prefix) ==
    Len(str) >= Len(prefix) /\ SubSeq(str, 1, Len(prefix)) = prefix

\* GroqClient.__init__ gets past its two checks
valid_api_key_no_prefix_check(key) ==
    ~(key = <<>> \/ key = Placeholder)

valid_api_key(key) ==
    /\ ~(key = <<>> \/ key = Placeholder)
    /\ startswith(key, Prefix)

VARIABLE self_max_retries

model_to_use(attempt) == IF attempt < 2 THEN model ELSE fallback_model

backoff_linear(attempt) == 2 * attempt

backoff(attempt) == 2 ^ attempt

\* "Groq API error: <status> - <message>"
error_detail(o) ==
    <<"Groq API error", o.status,
      CASE o.body = "error_msg" -> "upstream message"
        [] o.body = "text" -> "response.text"
        [] OTHER -> "Unknown error">>

Decision(act, delay, exc, status, detail, content) ==
    [act |-> act, delay |-> delay, exc |-> exc, status |-> status,
     detail |-> detail, content |-> content]

Return(content) == Decision("return", 0, "", 0, <<"", 0, "">>, content)
Raise(status, detail) == Decision("raise", 0, "HTTPException", status, detail, "")
RaiseOther == Decision("raise", 0, "Exception", 0, <<"", 0, "">>, "")
Sleep(delay) == Decision("sleep", delay, "", 0, <<"", 0, "">>, "")
Continue == Decision("continue", 0, "", 0, <<"", 0, "">>, "")

\* if attempt < self.max_retries - 1: another attempt follows
may_retry_early(attempt) == attempt < self_max_retries - 2

may_retry_late(attempt) == attempt < self_max_retries

may_retry(attempt) == attempt < self_max_retries - 1

\* if response.status_code == 200
is_success(o) == o.status = 200

\* A 429 on the last attempt neither continues nor raises: the loop ends and
\* the raise after it is reached.
after_loop_returns_empty == Return("")

after_loop == Raise(500, <<"Ule Msee is temporarily unavailable after multiple attempts", 0, "">>)

\* except httpx.TimeoutException
on_timeout_backoff(attempt) ==
    IF may_retry(attempt) THEN Sleep(backoff(attempt))
    ELSE Raise(504, <<"Ule Msee is taking too long to respond", 0, "">>)

on_timeout_exhausts(attempt) ==
    IF may_retry(attempt) THEN Continue
    ELSE Raise(500, <<"Ule Msee is temporarily unavailable after multiple attempts", 0, "">>)

on_timeout(attempt) ==
    IF may_retry(attempt) THEN Continue
    ELSE Raise(504, <<"Ule Msee is taking too long to respond", 0, "">>)

\* except httpx.RequestError
on_network_error_no_wait(attempt) ==
    IF may_retry(attempt) THEN Continue
    ELSE Raise(503, <<"Unable to connect to Ule Msee's AI service", 0, "">>)

on_network_error(attempt) ==
    IF may_retry(attempt) THEN Sleep(backoff(attempt))
    ELSE Raise(503, <<"Unable to connect to Ule Msee's AI service", 0, "">>)

\* return ai_response, model_to_use, response_time
returned_model_primary(attempt) == model

returned_model(attempt) == model_to_use(attempt)

\* One pass of the retry loop's body after client.post has ended in o.
generate_step(attempt, o) ==
    IF o.kind = "timeout" THEN on_timeout(attempt)
    ELSE IF o.kind = "neterr" THEN on_network_error(attempt)
    ELSE IF is_success(o)
    THEN IF o.body = "text" THEN RaiseOther
         ELSE IF o.body # "choices"
         THEN Raise(500, <<"Ule Msee couldn't generate a response", 0, "">>)
         ELSE Return(o.content)
    ELSE IF o.status = 429
    THEN IF may_retry(attempt) THEN Sleep(backoff(attempt))
         ELSE after_loop
    ELSE IF may_retry(attempt) THEN Sleep(backoff(attempt))
         ELSE Raise(o.status, error_detail(o))

\* ---- the loop of the two-model variant (start-ule-msee.py)
\* for attempt, model in enumerate([self.model, self.fallback_model])
start_models == <<model, fallback_model>>

start_model_primary(attempt) == model

start_model(attempt) == start_models[attempt + 1]

\* if attempt == 0: the fallback model is still to be tried
start_may_retry(attempt) == attempt = 0

\* except Exception: a body that is not JSON, or the Exception raised for an
\* empty choices list
start_on_exception(attempt) ==
    IF start_may_retry(attempt) THEN Continue
    ELSE Raise(500, <<"Ule Msee encountered an internal error", 0, "">>)

\* elif response.status_code == 429
start_on_rate_limit_generic(attempt) ==
    IF start_may_retry(attempt) THEN Sleep(1)
    ELSE Raise(500, <<"All AI models failed to respond", 0, "">>)

start_on_rate_limit(attempt) ==
    IF start_may_retry(attempt) THEN Sleep(1)
    ELSE Raise(429, <<"Rate limit exceeded", 0, "">>)

\* One pass of the loop's body after client.post has ended in o.
start_generate_step(attempt, o) ==
    IF o.kind = "timeout"
    THEN IF start_may_retry(attempt) THEN Continue
         ELSE Raise(504, <<"Ule Msee is taking too long to respond", 0, "">>)
    ELSE IF o.kind = "neterr"
    THEN IF start_may_retry(attempt) THEN Continue
         ELSE Raise(503, <<"Unable to connect to Ule Msee's AI service", 0, "">>)
    ELSE IF o.status = 200
    THEN IF o.body = "choices" THEN Return(o.content)
         ELSE start_on_exception(attempt)
    ELSE IF o.status = 429 THEN start_on_rate_limit(attempt)
    ELSE IF o.status = 401 THEN Raise(401, <<"Invalid API key", 0, "">>)
    ELSE IF o.status = 403 THEN Raise(403, <<"API key permission denied", 0, "">>)
    ELSE IF start_may_retry(attempt) THEN Continue
    ELSE Raise(o.status, error_detail(o))

\* ---------------------------------------------------------- history log
\* datetime.now().isoformat(): zero-padded decimal fields, most significant
\* first; the sort key compares these strings character by character.
isoformat(t) == <<t \div 10, t % 10>>

RECURSIVE StrLess(_, _)
StrLess(a, b) ==
    IF b = <<>> THEN FALSE
    ELSE IF a = <<>> THEN TRUE
    ELSE IF Head(a) # Head(b) THEN Head(a) < Head(b)
    ELSE StrLess(Tail(a), Tail(b))

\* history_items.append(item); if len > MAX_HISTORY_ITEMS: pop(0)
append_history_no_evict(h, item) == Append(h, item)

append_history_pop_last(h, item) ==
    LET grown == Append(h, item)
    IN IF Len(grown) > MAX_HISTORY_ITEMS THEN SubSeq(grown, 1, Len(grown) - 1) ELSE grown

append_history_front(h, item) ==
    LET grown == <<item>> \o h
    IN IF Len(grown) > MAX_HISTORY_ITEMS THEN SubSeq(grown, 1, Len(grown) - 1) ELSE grown

append_history(h, item) ==
    LET grown == Append(h, item)
    IN IF Len(grown) > MAX_HISTORY_ITEMS THEN Tail(grown) ELSE grown

\* sorted(history_items, key=timestamp, reverse=True): a stable sort, so
\* records with equal keys keep their relative order in the list.
RECURSIVE InsertDesc(_, _)
InsertDesc_ties_first(x, s) ==
    IF s = <<>> THEN <<x>>
    ELSE IF ~StrLess(x.timestamp, Head(s).timestamp) THEN <<x>> \o s
    ELSE <<Head(s)>> \o InsertDesc(x, Tail(s))

InsertDesc(x, s) ==
    IF s = <<>> THEN <<x>>
    ELSE IF StrLess(Head(s).timestamp, x.timestamp) THEN <<x>> \o s
    ELSE <<Head(s)>> \o InsertDesc(x, Tail(s))

RECURSIVE SortedDesc(_)
SortedDesc(s) ==
    IF s = <<>> THEN <<>>
    ELSE InsertDesc(s[Len(s)], SortedDesc(SubSeq(s, 1, Len(s) - 1)))

\* Python's s[:limit]
SlicePrefix(s, limit) ==
    LET n == IF limit >= 0
             THEN (IF limit < Len(s) THEN limit ELSE Len(s))
             ELSE (IF Len(s) + limit > 0 THEN Len(s) + limit ELSE 0)
    IN SubSeq(s, 1, n)

sorted_history(h, limit) == SlicePrefix(SortedDesc(h), limit)

\* ----------------------------------------------------------------- state
VARIABLES
    history_items,  \* the global list of history records, oldest first
    now,            \* the clock
    next_id,        \* the next uuid4 value
    pc,             \* per request: "idle", "post", "sleep", "done"
    question,       \* per request: request.question
    attempt,        \* per request: the loop variable of generate_response
    start_time,     \* per request: start_time of generate_response
    wake,           \* per request: when the pending asyncio.sleep ends
    trace,          \* per request: outbound calls, outcomes and waits so far
    result,         \* per request: how the request ended
    last_list,      \* the last get_history (limit and response) if the log
                    \* has not been mutated since, else NoList
    last_write,     \* the reply of the last delete_history_item or clear_history,
                    \* if no other history request was served since, else NoWrite
    removed,        \* TRUE once delete_history_item or clear_history removed a record
    GROQ_API_KEY,   \* the environment's credential token (<<>> when unset or empty)
    groq_client,    \* app_state.groq_client: "None" or "client"
    request_text    \* per request: the "question" text of the request body, as sent

vars == <<history_items, now, next_id, pc, question, attempt, start_time, wake,
          trace, result, last_list, last_write, removed, self_max_retries,
          GROQ_API_KEY, groq_client, request_text>>

reqvars == <<pc, question, attempt, start_time, wake, trace, result>>

CallEv(m) == [ev |-> "call", model |-> m, delay |-> 0, outcome |-> TimeoutOutcome]
WaitEv(d) == [ev |-> "wait", model |-> "", delay |-> d, outcome |-> TimeoutOutcome]
RespEv(o) == [ev |-> "resp", model |-> "", delay |-> 0, outcome |-> o]

NoResult ==
    [kind |-> "pending", exc |-> "", status |-> 0, detail |-> <<"", 0, "">>,
     response |-> "", model_used |-> "", response_time |-> 0, record_id |-> 0]

NoList == [limit |-> 0, response |-> <<>>, fresh |-> FALSE]

\* status: the HTTP status of the reply; count: the number the reply of
\* clear_history reports as removed
NoWrite == [op |-> "none", item_id |-> 0, status |-> 0, count |-> 0]

Init ==
    /\ history_items = <<>>
    /\ now = 0
    /\ next_id = 1
    /\ pc = [r \in Requests |-> "idle"]
    /\ question = [r \in Requests |-> ""]
    /\ attempt = [r \in Requests |-> 0]
    /\ start_time = [r \in Requests |-> 0]
    /\ wake = [r \in Requests |-> 0]
    /\ trace = [r \in Requests |-> <<>>]
    /\ result = [r \in Requests |-> NoResult]
    /\ last_list = NoList
    /\ last_write = NoWrite
    /\ removed = FALSE
    /\ self_max_retries = max_retries
    /\ GROQ_API_KEY = GoodKey
    /\ groq_client = "client"
    /\ request_text = [r \in Requests |-> <<>>]

\* --------------------------------------------------------------- actions
\* POST /api/question arrives (requests are numbered in arrival order): ask_question calls generate_response, which
\* reads start_time, enters the loop and suspends in the first client.post.
ask_question_serial(r, q) ==
    /\ pc[r] = "idle"
    /\ \A other \in Requests : pc[other] \in {"idle", "done"}
    /\ \A earlier \in 1..(r - 1) : pc[earlier] # "idle"
    /\ question' = [question EXCEPT ![r] = q]
    /\ IF groq_client = "None" /\ ~valid_api_key(GROQ_API_KEY)
       THEN \* get_groq_client: GroqClient() raises ValueError, HTTPException(500)
            /\ pc' = [pc EXCEPT ![r] = "done"]
            /\ result' = [result EXCEPT ![r] =
                   [NoResult EXCEPT !.kind = "error", !.exc = "HTTPException",
                                    !.status = 500, !.detail = <<"GROQ_API_KEY", 0, "">>]]
            /\ UNCHANGED <<groq_client, attempt, start_time, trace>>
       ELSE /\ groq_client' = "client"
            /\ pc' = [pc EXCEPT ![r] = "post"]
            /\ attempt' = [attempt EXCEPT ![r] = 0]
            /\ start_time' = [start_time EXCEPT ![r] = now]
            /\ trace' = [trace EXCEPT ![r] = <<CallEv(model_to_use(0))>>]
            /\ UNCHANGED result
    /\ UNCHANGED <<history_items, now, next_id, wake, last_list, last_write, removed, self_max_retries, GROQ_API_KEY, request_text>>

ask_question(r, q) ==
    /\ pc[r] = "idle"
    /\ \A earlier \in 1..(r - 1) : pc[earlier] # "idle"
    /\ question' = [question EXCEPT ![r] = q]
    /\ IF groq_client = "None" /\ ~valid_api_key(GROQ_API_KEY)
       THEN \* get_groq_client: GroqClient() raises ValueError, HTTPException(500)
            /\ pc' = [pc EXCEPT ![r] = "done"]
            /\ result' = [result EXCEPT ![r] =
                   [NoResult EXCEPT !.kind = "error", !.exc = "HTTPException",
                                    !.status = 500, !.detail = <<"GROQ_API_KEY", 0, "">>]]
            /\ UNCHANGED <<groq_client, attempt, start_time, trace>>
       ELSE /\ groq_client' = "client"
            /\ pc' = [pc EXCEPT ![r] = "post"]
            /\ attempt' = [attempt EXCEPT ![r] = 0]
            /\ start_time' = [start_time EXCEPT ![r] = now]
            /\ trace' = [trace EXCEPT ![r] = <<CallEv(model_to_use(0))>>]
            /\ UNCHANGED result
    /\ UNCHANGED <<history_items, now, next_id, wake, last_list, last_write, removed, self_max_retries, GROQ_API_KEY, request_text>>

\* POST /api/question with the body text request_text[r]: validate_question
\* rejects a text that is empty after strip() (FastAPI answers 422 before the
\* handler runs) and hands the stripped text to ask_question otherwise.
post_question(r) ==
    IF strip(request_text[r]) = <<>>
    THEN /\ pc[r] = "idle"
         /\ \A earlier \in 1..(r - 1) : pc[earlier] # "idle"
         /\ pc' = [pc EXCEPT ![r] = "done"]
         /\ result' = [result EXCEPT ![r] =
                [NoResult EXCEPT !.kind = "error", !.exc = "RequestValidationError",
                                 !.status = 422]]
         /\ UNCHANGED <<history_items, now, next_id, question, attempt, start_time, wake,
                        trace, last_list, last_write, removed, self_max_retries,
                        GROQ_API_KEY, groq_client, request_text>>
    ELSE ask_question(r, strip(request_text[r]))

\* the clock reading a record is stamped with: datetime.now() is evaluated
\* while the record is built, after generate_response has returned
stamp_time_at_arrival(arrived, returned) == arrived

stamp_time(arrived, returned) == returned

\* client.post of request r ends in outcome o; the handler runs on to its
\* next suspension point or to its end.
post_returns(r, o) ==
    /\ pc[r] = "post"
    /\ LET d == generate_step(attempt[r], o)
           seen == Append(trace[r], RespEv(o))
       IN
       CASE d.act = "return" ->
              LET item == [id |-> next_id, question |-> question[r],
                           response |-> d.content,
                           timestamp |-> isoformat(stamp_time(start_time[r], now)),
                           model_used |-> returned_model(attempt[r])]
              IN /\ history_items' = append_history(history_items, item)
                 /\ next_id' = next_id + 1
                 /\ last_list' = NoList
                 /\ last_write' = NoWrite
                 /\ pc' = [pc EXCEPT ![r] = "done"]
                 /\ trace' = [trace EXCEPT ![r] = seen]
                 /\ result' = [result EXCEPT ![r] =
                        [kind |-> "ok", exc |-> "", status |-> 200, detail |-> <<"", 0, "">>,
                         response |-> d.content, model_used |-> returned_model(attempt[r]),
                         response_time |-> now - start_time[r], record_id |-> item.id]]
                 /\ attempt' = [attempt EXCEPT ![r] = 0]
                 /\ start_time' = [start_time EXCEPT ![r] = 0]
                 /\ UNCHANGED wake
         [] d.act = "raise" ->
              /\ pc' = [pc EXCEPT ![r] = "done"]
              /\ trace' = [trace EXCEPT ![r] = seen]
              /\ result' = [result EXCEPT ![r] =
                     IF d.exc = "HTTPException"
                     THEN [NoResult EXCEPT !.kind = "error", !.exc = d.exc,
                                           !.status = d.status, !.detail = d.detail]
                     ELSE [NoResult EXCEPT !.kind = "error", !.exc = d.exc,
                                           !.status = 500,
                                           !.detail = <<"Ule Msee encountered an internal error", 0, "">>]]
              /\ attempt' = [attempt EXCEPT ![r] = 0]
              /\ start_time' = [start_time EXCEPT ![r] = 0]
              /\ UNCHANGED <<history_items, next_id, last_list, last_write, wake>>
         [] d.act = "sleep" ->
              /\ pc' = [pc EXCEPT ![r] = "sleep"]
              /\ wake' = [wake EXCEPT ![r] = now + d.delay]
              /\ trace' = [trace EXCEPT ![r] = Append(seen, WaitEv(d.delay))]
              /\ UNCHANGED <<history_items, next_id, last_list, last_write, attempt, start_time, result>>
         [] d.act = "continue" ->
              /\ attempt' = [attempt EXCEPT ![r] = attempt[r] + 1]
              /\ trace' = [trace EXCEPT ![r] = Append(seen, CallEv(model_to_use(attempt[r] + 1)))]
              /\ UNCHANGED <<history_items, next_id, last_list, last_write, pc, start_time, wake, result>>
    /\ UNCHANGED <<now, question, removed, self_max_retries, GROQ_API_KEY, groq_client, request_text>>

\* asyncio.sleep(2 ** attempt) is over: continue with the next attempt.
sleep_returns_restarts_clock(r) ==
    /\ pc[r] = "sleep"
    /\ now >= wake[r]
    /\ pc' = [pc EXCEPT ![r] = "post"]
    /\ attempt' = [attempt EXCEPT ![r] = attempt[r] + 1]
    /\ wake' = [wake EXCEPT ![r] = 0]
    /\ start_time' = [start_time EXCEPT ![r] = now]
    /\ trace' = [trace EXCEPT ![r] = Append(trace[r], CallEv(model_to_use(attempt[r] + 1)))]
    /\ UNCHANGED <<history_items, now, next_id, question, result,
                   last_list, last_write, removed, self_max_retries, GROQ_API_KEY, groq_client, request_text>>

sleep_returns_drops_oldest(r) ==
    /\ pc[r] = "sleep"
    /\ now >= wake[r]
    /\ pc' = [pc EXCEPT ![r] = "post"]
    /\ attempt' = [attempt EXCEPT ![r] = attempt[r] + 1]
    /\ wake' = [wake EXCEPT ![r] = 0]
    /\ trace' = [trace EXCEPT ![r] = Append(trace[r], CallEv(model_to_use(attempt[r] + 1)))]
    /\ history_items' = (IF history_items = <<>> THEN <<>> ELSE Tail(history_items))
    /\ UNCHANGED <<now, next_id, question, start_time, result,
                   last_list, last_write, removed, self_max_retries, GROQ_API_KEY, groq_client, request_text>>

sleep_returns(r) ==
    /\ pc[r] = "sleep"
    /\ now >= wake[r]
    /\ pc' = [pc EXCEPT ![r] = "post"]
    /\ attempt' = [attempt EXCEPT ![r] = attempt[r] + 1]
    /\ wake' = [wake EXCEPT ![r] = 0]
    /\ trace' = [trace EXCEPT ![r] = Append(trace[r], CallEv(model_to_use(attempt[r] + 1)))]
    /\ UNCHANGED <<history_items, now, next_id, question, start_time, result,
                   last_list, last_write, removed, self_max_retries, GROQ_API_KEY, groq_client, request_text>>

\* The caller aborts the request: CancelledError is raised at the await the
\* handler is suspended in and passes both except clauses of ask_question.
cancel(r) ==
    /\ pc[r] \in {"post", "sleep"}
    /\ pc' = [pc EXCEPT ![r] = "done"]
    /\ result' = [result EXCEPT ![r] =
           [NoResult EXCEPT !.kind = "cancelled", !.exc = "CancelledError"]]
    /\ attempt' = [attempt EXCEPT ![r] = 0]
    /\ start_time' = [start_time EXCEPT ![r] = 0]
    /\ wake' = [wake EXCEPT ![r] = 0]
    /\ UNCHANGED <<history_items, now, next_id, question, trace, last_list, last_write, removed, self_max_retries, GROQ_API_KEY, groq_client, request_text>>

\* GET /api/history?limit=
get_history_in_place(limit) ==
    /\ history_items' = SortedDesc(history_items)
    /\ last_list' = [limit |-> limit,
                     response |-> sorted_history(history_items, limit),
                     fresh |-> TRUE]
    /\ last_write' = NoWrite
    /\ UNCHANGED <<now, next_id, reqvars, removed, self_max_retries, GROQ_API_KEY, groq_client, request_text>>

get_history(limit) ==
    /\ last_list' = [limit |-> limit,
                     response |-> sorted_history(history_items, limit),
                     fresh |-> TRUE]
    /\ last_write' = NoWrite
    /\ UNCHANGED <<history_items, now, next_id, reqvars, removed, self_max_retries, GROQ_API_KEY, groq_client, request_text>>

\* DELETE /api/history/{item_id}
delete_history_item_keeps_match(item_id) ==
    LET kept == SelectSeq(history_items, LAMBDA item : item.id = item_id)
    IN /\ history_items' = kept
       /\ removed' = (removed \/ Len(kept) # Len(history_items))
       /\ last_list' = NoList
       /\ last_write' = [op |-> "delete", item_id |-> item_id, count |-> 0,
                         status |-> IF Len(kept) = Len(history_items) THEN 404 ELSE 200]
       /\ UNCHANGED <<now, next_id, reqvars, self_max_retries, GROQ_API_KEY, groq_client, request_text>>

\* The list is rebuilt without the records of that id; the same length as
\* before means nothing matched: HTTPException(404).
delete_history_item(item_id) ==
    LET kept == SelectSeq(history_items, LAMBDA item : item.id # item_id)
    IN /\ history_items' = kept
       /\ removed' = (removed \/ Len(kept) # Len(history_items))
       /\ last_list' = NoList
       /\ last_write' = [op |-> "delete", item_id |-> item_id, count |-> 0,
                         status |-> IF Len(kept) = Len(history_items) THEN 404 ELSE 200]
       /\ UNCHANGED <<now, next_id, reqvars, self_max_retries, GROQ_API_KEY, groq_client, request_text>>

\* DELETE /api/history
clear_history_counts_after ==
    /\ history_items' = <<>>
    /\ removed' = (removed \/ Len(history_items) > 0)
    /\ last_list' = NoList
    /\ last_write' = [op |-> "clear", item_id |-> 0, status |-> 200, count |-> 0]
    /\ UNCHANGED <<now, next_id, reqvars, self_max_retries, GROQ_API_KEY, groq_client, request_text>>

clear_history_cancels ==
    /\ history_items' = <<>>
    /\ removed' = (removed \/ Len(history_items) > 0)
    /\ last_list' = NoList
    /\ last_write' = [op |-> "clear", item_id |-> 0, status |-> 200,
                      count |-> Len(history_items)]
    /\ pc' = [r \in Requests |-> IF pc[r] \in {"post", "sleep"} THEN "done" ELSE pc[r]]
    /\ result' = [r \in Requests |->
           IF pc[r] \in {"post", "sleep"}
           THEN [NoResult EXCEPT !.kind = "cancelled", !.exc = "CancelledError"]
           ELSE result[r]]
    /\ attempt' = [r \in Requests |-> 0]
    /\ start_time' = [r \in Requests |-> 0]
    /\ wake' = [r \in Requests |-> 0]
    /\ UNCHANGED <<now, next_id, question, trace, self_max_retries, GROQ_API_KEY, groq_client, request_text>>

clear_history ==
    /\ history_items' = <<>>
    /\ removed' = (removed \/ Len(history_items) > 0)
    /\ last_list' = NoList
    /\ last_write' = [op |-> "clear", item_id |-> 0, status |-> 200,
                      count |-> Len(history_items)]
    /\ UNCHANGED <<now, next_id, reqvars, self_max_retries, GROQ_API_KEY, groq_client, request_text>>

\* time passes
tick ==
    /\ now < MaxTime
    /\ now' = now + 1
    /\ UNCHANGED <<history_items, next_id, reqvars, last_list, last_write, removed, self_max_retries, GROQ_API_KEY, groq_client, request_text>>

\* time passes beyond MaxTime while a pending asyncio.sleep waits for it
sleep_tick ==
    /\ now >= MaxTime
    /\ \E r \in Requests : pc[r] = "sleep" /\ now < wake[r]
    /\ now' = now + 1
    /\ UNCHANGED <<history_items, next_id, reqvars, last_list, last_write, removed, self_max_retries, GROQ_API_KEY, groq_client, request_text>>

\* ------------------------------------- the two-model variant (start-ule-msee)
\* POST /api/question arrives at the variant
start_ask_question(r, q) ==
    /\ pc[r] = "idle"
    /\ \A earlier \in 1..(r - 1) : pc[earlier] # "idle"
    /\ groq_client = "client"
    /\ question' = [question EXCEPT ![r] = q]
    /\ pc' = [pc EXCEPT ![r] = "post"]
    /\ attempt' = [attempt EXCEPT ![r] = 0]
    /\ start_time' = [start_time EXCEPT ![r] = now]
    /\ trace' = [trace EXCEPT ![r] = <<CallEv(start_model(0))>>]
    /\ UNCHANGED <<history_items, now, next_id, wake, result, last_list, last_write,
                   removed, self_max_retries, GROQ_API_KEY, groq_client, request_text>>

\* client.post of request r ends in outcome o in the variant
start_post_returns(r, o) ==
    /\ pc[r] = "post"
    /\ LET d == start_generate_step(attempt[r], o)
           seen == Append(trace[r], RespEv(o))
       IN
       CASE d.act = "return" ->
              LET item == [id |-> next_id, question |-> question[r],
                           response |-> d.content, timestamp |-> isoformat(now),
                           model_used |-> start_model(attempt[r])]
              IN /\ history_items' = append_history(history_items, item)
                 /\ next_id' = next_id + 1
                 /\ last_list' = NoList
                 /\ last_write' = NoWrite
                 /\ pc' = [pc EXCEPT ![r] = "done"]
                 /\ trace' = [trace EXCEPT ![r] = seen]
                 /\ result' = [result EXCEPT ![r] =
                        [kind |-> "ok", exc |-> "", status |-> 200, detail |-> <<"", 0, "">>,
                         response |-> d.content, model_used |-> start_model(attempt[r]),
                         response_time |-> now - start_time[r], record_id |-> item.id]]
                 /\ attempt' = [attempt EXCEPT ![r] = 0]
                 /\ start_time' = [start_time EXCEPT ![r] = 0]
                 /\ UNCHANGED wake
         [] d.act = "raise" ->
              /\ pc' = [pc EXCEPT ![r] = "done"]
              /\ trace' = [trace EXCEPT ![r] = seen]
              /\ result' = [result EXCEPT ![r] =
                     [NoResult EXCEPT !.kind = "error", !.exc = d.exc,
                                      !.status = d.status, !.detail = d.detail]]
              /\ attempt' = [attempt EXCEPT ![r] = 0]
              /\ start_time' = [start_time EXCEPT ![r] = 0]
              /\ UNCHANGED <<history_items, next_id, last_list, last_write, wake>>
         [] d.act = "sleep" ->
              /\ pc' = [pc EXCEPT ![r] = "sleep"]
              /\ wake' = [wake EXCEPT ![r] = now + d.delay]
              /\ trace' = [trace EXCEPT ![r] = Append(seen, WaitEv(d.delay))]
              /\ UNCHANGED <<history_items, next_id, last_list, last_write, attempt, start_time, result>>
         [] d.act = "continue" ->
              /\ attempt' = [attempt EXCEPT ![r] = attempt[r] + 1]
              /\ trace' = [trace EXCEPT ![r] = Append(seen, CallEv(start_model(attempt[r] + 1)))]
              /\ UNCHANGED <<history_items, next_id, last_list, last_write, pc, start_time, wake, result>>
    /\ UNCHANGED <<now, question, removed, self_max_retries, GROQ_API_KEY, groq_client, request_text>>

\* asyncio.sleep(1) is over in the variant: the fallback model is tried
start_sleep_returns(r) ==
    /\ pc[r] = "sleep"
    /\ now >= wake[r]
    /\ pc' = [pc EXCEPT ![r] = "post"]
    /\ attempt' = [attempt EXCEPT ![r] = attempt[r] + 1]
    /\ wake' = [wake EXCEPT ![r] = 0]
    /\ trace' = [trace EXCEPT ![r] = Append(trace[r], CallEv(start_model(attempt[r] + 1)))]
    /\ UNCHANGED <<history_items, now, next_id, question, start_time, result,
                   last_list, last_write, removed, self_max_retries, GROQ_API_KEY, groq_client, request_text>>

\* ---------------------------------------------------------- specifications
\* Concurrent requests against the shared history log.
Next ==
    \/ \E r \in Requests : ask_question(r, "q1")
    \/ \E r \in Requests, o \in FewOutcomes : post_returns(r, o)
    \/ \E r \in Requests : sleep_returns(r)
    \/ \E r \in Requests : cancel(r)
    \/ \E limit \in Limits : get_history(limit)
    \/ \E item_id \in 1..NumRequests : delete_history_item(item_id)
    \/ clear_history
    \/ tick

Spec == Init /\ [][Next]_vars

\* One question request against every upstream outcome.
NextGen ==
    \/ \E q \in Questions : ask_question(1, q)
    \/ \E o \in Outcomes : post_returns(1, o)
    \/ sleep_returns(1)
    \/ cancel(1)
    \/ tick

SpecGen == Init /\ [][NextGen]_vars

\* The same, with a clock that keeps running for a pending sleep.  Every
\* outbound call ends (in a response, a failure or a timeout), every sleep
\* ends, and time passes.
NextGenLive == NextGen \/ sleep_tick

SpecGenLive ==
    /\ Init
    /\ [][NextGenLive]_vars
    /\ WF_vars(\E o \in Outcomes : post_returns(1, o))
    /\ WF_vars(sleep_returns(1))
    /\ WF_vars(tick)
    /\ WF_vars(sleep_tick)

\* One question request on a client whose max_retries attribute was set to
\* any value in 1..MaxRetriesCfg after construction.
InitCfg ==
    /\ history_items = <<>>
    /\ now = 0
    /\ next_id = 1
    /\ pc = [r \in Requests |-> "idle"]
    /\ question = [r \in Requests |-> ""]
    /\ attempt = [r \in Requests |-> 0]
    /\ start_time = [r \in Requests |-> 0]
    /\ wake = [r \in Requests |-> 0]
    /\ trace = [r \in Requests |-> <<>>]
    /\ result = [r \in Requests |-> NoResult]
    /\ last_list = NoList
    /\ last_write = NoWrite
    /\ removed = FALSE
    /\ self_max_retries \in 1..MaxRetriesCfg
    /\ GROQ_API_KEY = GoodKey
    /\ groq_client = "client"
    /\ request_text = [r \in Requests |-> <<>>]

NextCfg ==
    \/ ask_question(1, "q1")
    \/ \E o \in CfgOutcomes : post_returns(1, o)
    \/ sleep_returns(1)
    \/ tick
    \/ sleep_tick

SpecCfg == InitCfg /\ [][NextCfg]_vars

\* The service started with any credential token: lifespan has tried to
\* construct the client and stored it if construction succeeded.
\* Question requests arrive; with a stored client the upstream answers each
\* at once.
InitKey ==
    /\ history_items = <<>>
    /\ now = 0
    /\ next_id = 1
    /\ pc = [r \in Requests |-> "idle"]
    /\ question = [r \in Requests |-> ""]
    /\ attempt = [r \in Requests |-> 0]
    /\ start_time = [r \in Requests |-> 0]
    /\ wake = [r \in Requests |-> 0]
    /\ trace = [r \in Requests |-> <<>>]
    /\ result = [r \in Requests |-> NoResult]
    /\ last_list = NoList
    /\ last_write = NoWrite
    /\ removed = FALSE
    /\ self_max_retries = max_retries
    /\ GROQ_API_KEY \in Keys
    /\ groq_client = (IF valid_api_key(GROQ_API_KEY) THEN "client" ELSE "None")
    /\ request_text = [r \in Requests |-> <<>>]

NextKey ==
    \/ \E r \in Requests : ask_question(r, "q1")
    \/ \E r \in Requests : post_returns(r, Resp(200, "choices", "ans1"))
    \/ tick

SpecKey == InitKey /\ [][NextKey]_vars

\* One question request against the two-model variant, with every upstream
\* outcome.
NextStart ==
    \/ \E q \in Questions : start_ask_question(1, q)
    \/ \E o \in Outcomes : start_post_returns(1, o)
    \/ start_sleep_returns(1)
    \/ cancel(1)
    \/ tick

SpecStart == Init /\ [][NextStart]_vars

\* Question requests with any body text, all answered by the upstream at
\* once, and get_history.
InitAsk ==
    /\ history_items = <<>>
    /\ now = 0
    /\ next_id = 1
    /\ pc = [r \in Requests |-> "idle"]
    /\ question = [r \in Requests |-> <<>>]
    /\ attempt = [r \in Requests |-> 0]
    /\ start_time = [r \in Requests |-> 0]
    /\ wake = [r \in Requests |-> 0]
    /\ trace = [r \in Requests |-> <<>>]
    /\ result = [r \in Requests |-> NoResult]
    /\ last_list = NoList
    /\ last_write = NoWrite
    /\ removed = FALSE
    /\ self_max_retries = max_retries
    /\ GROQ_API_KEY = GoodKey
    /\ groq_client = "client"
    /\ request_text \in [Requests -> Texts]

NextAsk ==
    \/ \E r \in Requests : post_question(r)
    \/ \E r \in Requests, c \in Contents : post_returns(r, Resp(200, "choices", c))
    \/ \E limit \in Limits : get_history(limit)
    \/ tick

SpecAsk == InitAsk /\ [][NextAsk]_vars

\* ------------------------------------------------- what a request has done
Calls(r) == SelectSeq(trace[r], LAMBDA e : e.ev = "call")
Waits(r) == SelectSeq(trace[r], LAMBDA e : e.ev = "wait")
Seen(r) == SelectSeq(trace[r], LAMBDA e : e.ev = "resp")
NumCalls(r) == Len(Calls(r))
NumWaits(r) == Len(Waits(r))
Outcome(r, k) == Seen(r)[k].outcome

\* a 2xx response with at least one choice
IsCompletion(o) ==
    o.kind = "response" /\ o.status \in 200..299 /\ o.body = "choices"

AllSeen(r, status) ==
    \A k \in 1..Len(Seen(r)) :
        Outcome(r, k).kind = "response" /\ Outcome(r, k).status = status

\* ------------------------------------------------------------------ claims

\* C1: a 401 or 403 answer to the first attempt ends the request at once with
\* that authentication error, after exactly one outbound call and no backoff
\* wait.
C1_AuthFailsAtOnce ==
    \A r \in Requests :
        (Len(Seen(r)) >= 1 /\ Outcome(r, 1).kind = "response"
                           /\ Outcome(r, 1).status \in {401, 403})
        => /\ pc[r] = "done"
           /\ result[r].kind = "error"
           /\ result[r].status = Outcome(r, 1).status
           /\ NumCalls(r) = 1
           /\ NumWaits(r) = 0

\* C2: when every attempt was answered 429 and the attempts are exhausted,
\* the request has waited between the attempts and ends with a rate-limit
\* (429) error.
C2_RateLimitSurfaces ==
    \A r \in Requests :
        (Len(Seen(r)) = max_retries /\ AllSeen(r, 429))
        => /\ pc[r] = "done"
           /\ result[r].kind = "error"
           /\ result[r].status = 429
           /\ NumWaits(r) = max_retries - 1

\* C3: when the first outbound call is answered by a 2xx response with a
\* choice, the request ends in success with that choice's content, the
\* primary model and an elapsed time >= 0, after exactly one outbound call
\* and no backoff wait.
C3_FirstAttemptSuccess ==
    \A r \in Requests :
        (Len(Seen(r)) >= 1 /\ IsCompletion(Outcome(r, 1)))
        => /\ pc[r] = "done"
           /\ result[r].kind = "ok"
           /\ result[r].response = Outcome(r, 1).content
           /\ result[r].model_used = model
           /\ result[r].response_time >= 0
           /\ NumCalls(r) = 1
           /\ NumWaits(r) = 0

\* C4: a request never makes more than max_retries outbound calls, and when
\* every attempt was answered 500 it ends only after exactly max_retries
\* calls, with an error that carries the upstream status code 500 and the
\* upstream message.
C4_PersistentServerError ==
    \A r \in Requests :
        /\ NumCalls(r) <= max_retries
        /\ (Len(Seen(r)) >= 1 /\ AllSeen(r, 500) /\ result[r].kind = "error")
           => /\ NumCalls(r) = max_retries
              /\ Len(Seen(r)) = max_retries
              /\ result[r].status = 500
              /\ result[r].detail[2] = 500
              /\ (Outcome(r, max_retries).body = "error_msg"
                  => result[r].detail[3] = "upstream message")
              /\ (Outcome(r, max_retries).body = "text"
                  => result[r].detail[3] = "response.text")
        /\ (Len(Seen(r)) = max_retries /\ AllSeen(r, 500))
           => (pc[r] = "done" /\ result[r].kind = "error")

C4_Witness ==
    \E r \in Requests :
        /\ Len(Seen(r)) = max_retries
        /\ AllSeen(r, 500)
        /\ result[r].kind = "error"
        /\ Outcome(r, max_retries).body = "error_msg"

\* C5: when the first attempt is answered 429 and the second by a 2xx
\* response with a choice, the request ends in success with the model of
\* attempt 2 (the primary model), after exactly two outbound calls and
\* exactly one backoff wait, made between the two calls.
C5_RetryThenSuccess ==
    \A r \in Requests :
        (/\ Len(Seen(r)) >= 2
         /\ Outcome(r, 1).kind = "response"
         /\ Outcome(r, 1).status = 429
         /\ IsCompletion(Outcome(r, 2)))
        => /\ pc[r] = "done"
           /\ result[r].kind = "ok"
           /\ result[r].response = Outcome(r, 2).content
           /\ result[r].model_used = model
           /\ result[r].model_used = Calls(r)[2].model
           /\ NumCalls(r) = 2
           /\ NumWaits(r) = 1
           /\ trace[r][1].ev = "call"
           /\ trace[r][3].ev = "wait"
           /\ trace[r][4].ev = "call"

\* the point in time an isoformat string denotes
TimeOf(ts) == ts[1] * 10 + ts[2]

Ids(h) == {h[i].id : i \in 1..Len(h)}

LastOutcome(r) == Outcome(r, Len(Seen(r)))

\* C6: in every state a handler can observe, the history log holds at most
\* MAX_HISTORY_ITEMS records.
C6_CapacityBound == Len(history_items) <= MAX_HISTORY_ITEMS

C6_Witness ==
    /\ Len(history_items) = MAX_HISTORY_ITEMS
    /\ next_id > MAX_HISTORY_ITEMS + 1

\* C7: once capacity + 1 question requests have succeeded, with no delete or
\* clear, the log holds exactly capacity records: the record appended first
\* is absent and every other appended record is present.
C7_OldestEvicted ==
    (next_id = MAX_HISTORY_ITEMS + 2 /\ ~removed)
    => /\ Len(history_items) = MAX_HISTORY_ITEMS
       /\ Ids(history_items) = 2..(MAX_HISTORY_ITEMS + 1)
       /\ \A r \in Requests :
              result[r].kind = "ok"
              => (result[r].record_id \in Ids(history_items) <=> result[r].record_id # 1)

C7_Witness ==
    /\ next_id = MAX_HISTORY_ITEMS + 2
    /\ ~removed
    /\ result[1].kind = "ok"
    /\ result[1].record_id # 1

\* C8: a question request that ends in an error or is cancelled leaves the
\* history log as it was, and a record is appended only by a request whose
\* generate returned a completion.
C8_AppendOnlyOnSuccess ==
    [][/\ \A r \in Requests :
             (result[r].kind = "pending" /\ result'[r].kind \in {"error", "cancelled"})
             => history_items' = history_items
       /\ (next_id' # next_id)
          => \E r \in Requests :
                /\ result[r].kind = "pending"
                /\ result'[r].kind = "ok"
                /\ IsCompletion(LastOutcome(r)')
                /\ history_items'[Len(history_items')].id = result'[r].record_id
                /\ history_items'[Len(history_items')].response = LastOutcome(r)'.content
      ]_vars

C8_Witness ==
    /\ Len(history_items) >= 1
    /\ \E r \in Requests : result[r].kind = "error"
    /\ \E r \in Requests : result[r].kind = "cancelled"

\* C9: the response of get_history(limit) is in descending timestamp order,
\* holds at most limit records (none for a limit of 0 or less), and holds
\* every record of the log when limit >= count.
C9_ListTruncated ==
    last_list.fresh
    => LET resp == last_list.response
       IN /\ Len(resp) <= (IF last_list.limit > 0 THEN last_list.limit ELSE 0)
          /\ \A i, j \in 1..Len(resp) :
                 i < j => TimeOf(resp[i].timestamp) >= TimeOf(resp[j].timestamp)
          /\ (last_list.limit >= Len(history_items))
             => (Len(resp) = Len(history_items) /\ Ids(resp) = Ids(history_items))

\* C10: get_history leaves the log's contents and order unchanged (so the
\* record the next eviction removes stays the same), and a second
\* get_history with the same limit and no mutation in between returns the
\* same sequence.
C10_ListIsPureRead ==
    [][/\ (last_list'.fresh /\ last_list' # last_list)
          => /\ history_items' = history_items
             /\ (history_items # <<>> => Head(history_items') = Head(history_items))
       /\ (last_list.fresh /\ last_list'.fresh /\ last_list'.limit = last_list.limit)
          => last_list'.response = last_list.response
      ]_vars

C10_Witness ==
    /\ last_list.fresh
    /\ Len(history_items) = MAX_HISTORY_ITEMS
    /\ Len(last_list.response) >= 2
    /\ last_list.response # history_items

\* a step of delete_history_item: the only steps that leave a delete reply in
\* last_write while neither time nor any question request moves
IsDeleteStep ==
    last_write'.op = "delete" /\ now' = now /\ reqvars' = reqvars

\* a step of clear_history
IsClearStep ==
    last_write'.op = "clear" /\ now' = now /\ reqvars' = reqvars

\* a step of get_history
IsListStep ==
    last_list'.fresh /\ last_write' = NoWrite /\ now' = now /\ reqvars' = reqvars
    /\ history_items' = history_items

C12_ClearThenList ==
    [][/\ IsClearStep
          => (history_items' = <<>> /\ last_write'.count = Len(history_items))
       /\ (history_items = <<>> /\ next_id' = next_id)
          => history_items' = <<>>
       /\ (IsListStep /\ history_items = <<>>)
          => last_list'.response = <<>>
      ]_vars

C12_Witness ==
    /\ last_write.op = "clear"
    /\ last_write.count = MAX_HISTORY_ITEMS
    /\ history_items = <<>>

\* the trace of request r ends with the k-th outcome: no outbound call and no
\* backoff wait was made after it
EndsAt(r, k) ==
    /\ k = Len(Seen(r))
    /\ trace[r][Len(trace[r])].ev = "resp"

\* a 2xx response whose choices list is empty
IsEmptyCompletion(o) ==
    o.kind = "response" /\ o.status \in 200..299 /\ o.body = "empty"

\* C13: on any attempt, a 2xx response (any status in 200..299) with at least
\* one choice makes generate return success at once with that choice's text;
\* no outbound call and no backoff wait follows it.
C13_AnyAttemptSuccess ==
    \A r \in Requests : \A k \in 1..Len(Seen(r)) :
        IsCompletion(Outcome(r, k))
        => /\ EndsAt(r, k)
           /\ pc[r] = "done"
           /\ result[r].kind = "ok"
           /\ result[r].response = Outcome(r, k).content

\* C14: on any attempt, a 2xx response with zero choices ends generate at
\* once with an internal error (500); no outbound call and no backoff wait
\* follows it.
C14_EmptyChoicesTerminal ==
    \A r \in Requests : \A k \in 1..Len(Seen(r)) :
        IsEmptyCompletion(Outcome(r, k))
        => /\ EndsAt(r, k)
           /\ pc[r] = "done"
           /\ result[r].kind = "error"
           /\ result[r].status = 500

C16_ModelUsedIsLastCall ==
    \A r \in Requests :
        result[r].kind = "ok"
        => /\ result[r].model_used = Calls(r)[NumCalls(r)].model
           /\ \A i \in 1..Len(history_items) :
                  history_items[i].id = result[r].record_id
                  => history_items[i].model_used = Calls(r)[NumCalls(r)].model

\* a success on the third attempt, recorded in the log
C16_Witness ==
    /\ result[1].kind = "ok"
    /\ NumCalls(1) = 3
    /\ Calls(1)[3].model = fallback_model
    /\ \E i \in 1..Len(history_items) : history_items[i].id = result[1].record_id

\* the number of outbound calls among the first p events of request r
CallsBefore(r, p) ==
    Cardinality({q \in 1..p : trace[r][q].ev = "call"})

\* the position in the trace of request r of its k-th outcome
RespPos(r, k) ==
    CHOOSE p \in 1..Len(trace[r]) :
        /\ trace[r][p].ev = "resp"
        /\ Cardinality({q \in 1..p : trace[r][q].ev = "resp"}) = k

\* C17: the backoff wait after the failed attempt of 0-based index a lasts
\* 2^a seconds, so the waits of one request are strictly increasing; no wait
\* follows the final attempt, and a request waits at most max_retries - 1
\* times.
C17_ExponentialBackoff ==
    \A r \in Requests :
        /\ \A p \in 1..Len(trace[r]) :
               trace[r][p].ev = "wait"
               => /\ trace[r][p].delay = 2 ^ (CallsBefore(r, p) - 1)
                  /\ CallsBefore(r, p) < max_retries
        /\ \A i, j \in 1..NumWaits(r) :
               i < j => Waits(r)[i].delay < Waits(r)[j].delay
        /\ NumWaits(r) <= max_retries - 1

\* two waits, of 1 s and of 2 s, and the third attempt failed
C17_Witness ==
    /\ NumWaits(1) = max_retries - 1
    /\ Len(Seen(1)) = max_retries
    /\ result[1].kind = "error"

\* every outcome request r has seen is of the given kind
AllKind(r, kind) ==
    \A k \in 1..Len(Seen(r)) : Outcome(r, k).kind = kind

\* C18: a timeout on a non-final attempt is followed at once by the next
\* outbound call, with no backoff wait; a timeout on the final attempt ends
\* the request with a timeout error (504); when every attempt times out the
\* request makes exactly max_retries outbound calls and no wait.
C18_TimeoutRetriesAtOnce ==
    \A r \in Requests :
        /\ \A k \in 1..Len(Seen(r)) :
               Outcome(r, k).kind = "timeout"
               => IF k < max_retries
                  THEN /\ Len(trace[r]) > RespPos(r, k)
                       /\ trace[r][RespPos(r, k) + 1].ev = "call"
                  ELSE /\ EndsAt(r, k)
                       /\ pc[r] = "done"
                       /\ result[r].kind = "error"
                       /\ result[r].status = 504
        /\ (Len(Seen(r)) = max_retries /\ AllKind(r, "timeout"))
           => /\ NumCalls(r) = max_retries
              /\ NumWaits(r) = 0
              /\ result[r].status = 504

\* every attempt timed out
C18_Witness ==
    /\ Len(Seen(1)) = max_retries
    /\ AllKind(1, "timeout")
    /\ pc[1] = "done"

\* C19: a network failure on a non-final attempt is followed by a backoff
\* wait of 2^attempt seconds and then by another outbound call; on the final
\* attempt it ends the request with a connectivity error (503) and no wait;
\* when every attempt fails so, the request has made exactly max_retries
\* outbound calls.
C19_NetworkErrorBacksOff ==
    \A r \in Requests :
        /\ \A k \in 1..Len(Seen(r)) :
               Outcome(r, k).kind = "neterr"
               => IF k < max_retries
                  THEN LET p == RespPos(r, k)
                       IN /\ Len(trace[r]) > p
                          /\ trace[r][p + 1].ev = "wait"
                          /\ trace[r][p + 1].delay = 2 ^ (k - 1)
                          /\ IF Len(trace[r]) > p + 1
                             THEN trace[r][p + 2].ev = "call"
                             ELSE pc[r] = "sleep" \/ result[r].kind = "cancelled"
                  ELSE /\ EndsAt(r, k)
                       /\ pc[r] = "done"
                       /\ result[r].kind = "error"
                       /\ result[r].status = 503
        /\ (Len(Seen(r)) = max_retries /\ AllKind(r, "neterr"))
           => /\ NumCalls(r) = max_retries
              /\ NumWaits(r) = max_retries - 1
              /\ result[r].status = 503

\* every attempt failed at the network level
C19_Witness ==
    /\ Len(Seen(1)) = max_retries
    /\ AllKind(1, "neterr")
    /\ pc[1] = "done"

\* request r has ended the way a call of generate can end: with the triple
\* (text, model, elapsed time) or with an exception
EndedProperly(r) ==
    \/ /\ result[r].kind = "ok"
       /\ result[r].response \in Contents
       /\ result[r].model_used \in {model, fallback_model}
       /\ result[r].response_time >= 0
    \/ /\ result[r].kind = "error"
       /\ result[r].exc \in {"HTTPException", "Exception"}
    \/ /\ result[r].kind = "cancelled"
       /\ result[r].exc = "CancelledError"

\* C20: provided every outbound call ends (in a response, a failure or a
\* timeout), every call of generate ends, returning the success triple or
\* raising an error, after at most max_retries outbound calls, whatever the
\* upstream outcomes are; it never returns without a value.
C20_GenerateTerminates ==
    /\ [](\A r \in Requests :
             /\ NumCalls(r) <= max_retries
             /\ pc[r] = "done" => EndedProperly(r))
    /\ \A r \in Requests : (pc[r] \in {"post", "sleep"}) ~> (pc[r] = "done")

\* all attempts used, the last one answered 429: the loop ran out
C20_Witness ==
    /\ pc[1] = "done"
    /\ NumCalls(1) = max_retries
    /\ AllSeen(1, 429)
    /\ result[1].kind = "error"
    /\ now > MaxTime

\* request r is suspended in client.post or in asyncio.sleep
Suspended(r) == pc[r] \in {"post", "sleep"}

\* C21: while a question request is suspended in its outbound call or in a
\* backoff wait, every other request can be served: get_history,
\* delete_history_item and clear_history run, the next question request
\* starts, and another question request whose call has ended runs on; none
\* waits for the suspended generate.  Each of them finds a log within its
\* capacity and with distinct ids.
C21_NoRequestBlocksAnother ==
    \A r \in Requests :
        Suspended(r)
        => /\ \A limit \in Limits : ENABLED get_history(limit)
           /\ \A item_id \in 1..NumRequests : ENABLED delete_history_item(item_id)
           /\ ENABLED clear_history
           /\ \A other \in Requests \ {r} :
                 /\ (pc[other] = "idle" /\ \A earlier \in 1..(other - 1) : pc[earlier] # "idle")
                    => ENABLED ask_question(other, "q1")
                 /\ pc[other] = "post"
                    => \A o \in FewOutcomes : ENABLED post_returns(other, o)
           /\ Len(history_items) <= MAX_HISTORY_ITEMS
           /\ \A i, j \in 1..Len(history_items) :
                 i # j => history_items[i].id # history_items[j].id

\* request 1 is still in its first outbound call; request 2, which arrived
\* later, has succeeded, and a delete was served after that
C21_Witness ==
    /\ pc[1] = "post"
    /\ NumCalls(1) = 1
    /\ result[2].kind = "ok"
    /\ last_write.op = "delete"
    /\ last_write.status = 200

\* C22: records are immutable and never reordered: a record present before
\* and after a step has the same fields in both, two such records keep their
\* relative order, and a record that is new after the step stands at the
\* newest end under an id never used before; the log changes only by an
\* append at the newest end (with the eviction of the oldest record when the
\* capacity is exceeded), by the deletion of one record or by a clear.
C22_RecordsImmutable ==
    [][LET h == history_items
           g == history_items'
       IN /\ \A i \in 1..Len(h), j \in 1..Len(g) :
                 h[i].id = g[j].id => h[i] = g[j]
          /\ \A i1, i2 \in 1..Len(h), j1, j2 \in 1..Len(g) :
                 (i1 < i2 /\ h[i1].id = g[j1].id /\ h[i2].id = g[j2].id) => j1 < j2
          /\ \A j \in 1..Len(g) :
                 g[j].id \notin Ids(h)
                 => (j = Len(g) /\ g[j].id = next_id /\ \A i \in 1..Len(h) : h[i].id < next_id)
          /\ \/ g = h
             \/ g = <<>>
             \/ \E k \in 1..Len(h) : g = SubSeq(h, 1, k - 1) \o SubSeq(h, k + 1, Len(h))
             \/ \E item \in {g[j] : j \in 1..Len(g)} :
                    g = Append(h, item) \/ g = Tail(Append(h, item))
      ]_vars

\* a record survived the removal of another one and a later append
C22_Witness ==
    /\ removed
    /\ Len(history_items) = 2
    /\ history_items[2].id = NumRequests
    /\ history_items[1].timestamp # history_items[2].timestamp

\* the token is absent, is the placeholder, or lacks the expected prefix
BadToken(key) ==
    \/ key = <<>>
    \/ key = Placeholder
    \/ Len(key) < 4
    \/ <<key[1], key[2], key[3], key[4]>> # <<"g", "s", "k", "_">>

\* C23: when the credential token is absent, equal to the placeholder or
\* without the expected prefix, no client is ever stored, and every question
\* request ends with an error before any outbound call is made and with the
\* history log unchanged.
C23_BadTokenNoClient ==
    BadToken(GROQ_API_KEY)
    => /\ groq_client = "None"
       /\ history_items = <<>>
       /\ next_id = 1
       /\ \A r \in Requests :
              pc[r] # "idle"
              => /\ pc[r] = "done"
                 /\ result[r].kind = "error"
                 /\ trace[r] = <<>>

\* two question requests have failed on a token without the prefix
C23_Witness ==
    /\ GROQ_API_KEY # <<>>
    /\ GROQ_API_KEY # Placeholder
    /\ BadToken(GROQ_API_KEY)
    /\ pc[1] = "done"
    /\ pc[2] = "done"
    /\ result[2].status = 500

\* C24: generate never writes the history log: every step a question request
\* takes between the start of generate and its return or raise (the start
\* itself, the end of a call that is retried, waited on or raised from, the
\* end of a wait, a cancellation) leaves the log as it was, so the log changes
\* during a generate call only by other requests.
C24_GenerateLeavesLog ==
    [][\A r \in Requests :
           (/\ (pc'[r] # pc[r] \/ trace'[r] # trace[r])
            /\ result'[r].kind # "ok")
           => history_items' = history_items
      ]_vars

\* request 1 is in a backoff wait and the log, empty when it started, has
\* received a record from a later request
C24_Witness ==
    /\ pc[1] = "sleep"
    /\ NumCalls(1) = 2
    /\ Len(history_items) >= 1

\* C25: ask_question answers a failed question request with 429 when the
\* failure was a rate limit, with a server-side status when the upstream
\* rejected the credential (the upstream's 401 or 403 is not passed through),
\* and with the one generic internal error (500) for every other failure
\* (upstream error, timeout, connectivity, empty completion, exhausted).
C25_StatusMapping ==
    \A r \in Requests :
        (result[r].kind = "error" /\ Len(Seen(r)) >= 1)
        => LET o == LastOutcome(r)
           IN IF o.kind = "response" /\ o.status = 429
              THEN result[r].status = 429
              ELSE IF o.kind = "response" /\ o.status \in {401, 403}
              THEN result[r].status \in 500..599
              ELSE result[r].status = 500

\* the sum of the delays of a sequence of wait events
RECURSIVE SumDelays(_)
SumDelays(waits) ==
    IF waits = <<>> THEN 0 ELSE Head(waits).delay + SumDelays(Tail(waits))

IsAuthFailure(o) == o.kind = "response" /\ o.status \in {401, 403}

C28_VariantAuthAndRateLimit ==
    \A r \in Requests :
        /\ (Len(Seen(r)) >= 1 /\ IsAuthFailure(Outcome(r, 1)))
           => /\ pc[r] = "done"
              /\ result[r].kind = "error"
              /\ result[r].status = Outcome(r, 1).status
              /\ NumCalls(r) = 1
              /\ NumWaits(r) = 0
        /\ (Len(Seen(r)) = 2 /\ Outcome(r, 2).kind = "response" /\ Outcome(r, 2).status = 429)
           => /\ pc[r] = "done"
              /\ result[r].kind = "error"
              /\ result[r].status = 429

\* both models were rate limited
C28_Witness ==
    /\ Len(Seen(1)) = 2
    /\ AllSeen(1, 429)
    /\ Calls(1)[2].model = fallback_model
    /\ pc[1] = "done"

\* C29: in the two-model variant a 2xx response with zero choices to the
\* primary call is followed at once, with no wait, by a call with the
\* fallback model; the same response to the fallback call ends the request
\* with an internal error (500).
C29_VariantEmptyChoices ==
    \A r \in Requests : \A k \in 1..Len(Seen(r)) :
        IsEmptyCompletion(Outcome(r, k))
        => IF k = 1
           THEN /\ Len(trace[r]) > RespPos(r, 1)
                /\ trace[r][RespPos(r, 1) + 1].ev = "call"
                /\ trace[r][RespPos(r, 1) + 1].model = fallback_model
                /\ NumWaits(r) = 0
           ELSE /\ EndsAt(r, k)
                /\ pc[r] = "done"
                /\ result[r].kind = "error"
                /\ result[r].status = 500

\* the failure raised after the loop
IsExhausted(res) ==
    /\ res.kind = "error"
    /\ res.detail[1] = "Ule Msee is temporarily unavailable after multiple attempts"

\* C30: generate raises the generic 'temporarily unavailable after multiple
\* attempts' failure if and only if the upstream answered the final attempt
\* with 429; after any other outcome of the final attempt the request has
\* succeeded or failed with an error of its own.
C30_ExhaustedIffFinal429 ==
    \A r \in Requests :
        /\ IsExhausted(result[r])
           <=> /\ pc[r] = "done"
               /\ result[r].kind # "cancelled"
               /\ Len(Seen(r)) = self_max_retries
               /\ LastOutcome(r).kind = "response"
               /\ LastOutcome(r).status = 429
        /\ (Len(Seen(r)) = self_max_retries
            /\ ~(LastOutcome(r).kind = "response" /\ LastOutcome(r).status = 429))
           => /\ pc[r] = "done"
              /\ result[r].kind \in {"ok", "error"}
              /\ ~IsExhausted(result[r])

\* the attempts ended in a timeout, a network failure and a 429
C30_Witness ==
    /\ IsExhausted(result[1])
    /\ Len(Seen(1)) = max_retries
    /\ Outcome(1, 1).kind = "timeout"
    /\ Outcome(1, 2).kind = "neterr"

\* ---------------------------------------------------------------- C31
\* t is what is left of raw once the whitespace on both sides is taken away
IsTrimOf(t, raw) ==
    \E i \in 0..Len(raw), j \in 0..Len(raw) :
        /\ i < j
        /\ t = SubSeq(raw, i + 1, j)
        /\ \A k \in 1..i : raw[k] \in Whitespace
        /\ \A k \in (j + 1)..Len(raw) : raw[k] \in Whitespace
        /\ raw[i + 1] \notin Whitespace
        /\ raw[j] \notin Whitespace

\* request r ends with a successful answer in this step
Succeeds(r) == result[r].kind # "ok" /\ result'[r].kind = "ok"

\* the record at the end of the log after the step
Appended == history_items'[Len(history_items')]

\* the step of a succeeding request r adds exactly one record, with the
\* trimmed text, the text generate returned and an id not in the log before
AppendsOneRecord(r) ==
    /\ history_items' # <<>>
    /\ \/ SubSeq(history_items', 1, Len(history_items') - 1) = history_items
       \/ /\ Len(history_items) = MAX_HISTORY_ITEMS
          /\ SubSeq(history_items', 1, Len(history_items') - 1) = Tail(history_items)
    /\ IsTrimOf(Appended.question, request_text[r])
    /\ Appended.response = LastOutcome(r)'.content
    /\ Appended.id \notin Ids(history_items)

\* position of the record with the given id in a listing, 0 when absent
PosOf(listing, id) ==
    IF \E k \in 1..Len(listing) : listing[k].id = id
    THEN CHOOSE k \in 1..Len(listing) : listing[k].id = id
    ELSE 0

InCompletionOrder(h) == \A i \in 1..Len(h), j \in 1..Len(h) : i < j => h[i].id < h[j].id

NonDecreasingTime(h) ==
    \A i \in 1..Len(h), j \in 1..Len(h) : i < j => ~StrLess(h[j].timestamp, h[i].timestamp)

Reverse(h) == [i \in 1..Len(h) |-> h[Len(h) + 1 - i]]

\* a succeeding request stamps its record with the clock reading at the
\* return of generate and puts it last; at capacity the record dropped is the
\* head, which no record precedes in time
StampsAndEvicts(r) ==
    /\ Appended.id = result'[r].record_id
    /\ Appended.timestamp = isoformat(now)
    /\ Len(history_items) = MAX_HISTORY_ITEMS =>
          /\ history_items' = Append(Tail(history_items), Appended)
          /\ \A k \in 1..Len(history_items) :
                ~StrLess(history_items[k].timestamp, history_items[1].timestamp)

\* requests are numbered in arrival order: when B arrived after A and
\* completed before A, B's record is the older of the two
LaterArrivalCanBeOlder(h) ==
    \A A \in Requests, B \in Requests :
        /\ A < B
        /\ result[A].kind = "ok" /\ result[B].kind = "ok"
        /\ result[B].record_id < result[A].record_id
        /\ {result[A].record_id, result[B].record_id} \subseteq Ids(h)
        => /\ PosOf(h, result[B].record_id) < PosOf(h, result[A].record_id)
           /\ ~StrLess(h[PosOf(h, result[A].record_id)].timestamp,
                       h[PosOf(h, result[B].record_id)].timestamp)

\* a full listing is by falling timestamp, and records with the same timestamp
\* follow each other in completion order
ListedByTimeThenCompletion(h) ==
    LET listing == sorted_history(h, 50)
    IN /\ Len(listing) = Len(h)
       /\ Ids(listing) = Ids(h)
       /\ \A i \in 1..Len(listing), j \in 1..Len(listing) : i < j =>
             \/ StrLess(listing[j].timestamp, listing[i].timestamp)
             \/ /\ listing[j].timestamp = listing[i].timestamp
                /\ listing[i].id < listing[j].id

IsWriteStep ==
    /\ last_write'.op \in {"clear", "delete"}
    /\ <<last_write, history_items>>' # <<last_write, history_items>>

\* the upstream answers request r with a completion
AnswerNow(r) == post_returns(r, Resp(200, "choices", "ans1"))

\* C33: clear and delete leave every question request in flight as it was,
\* and a request whose generate succeeds appends its record whatever happened
\* to the log while it waited; so a request begun before a clear can leave
\* the log non-empty after it without any new request arriving.
C33_ClearSparesInFlight ==
    /\ [][/\ IsWriteStep => reqvars' = reqvars
          /\ \A r \in Requests : Succeeds(r) =>
                /\ history_items' # <<>>
                /\ Appended.id = result'[r].record_id
                /\ Appended.response = result'[r].response]_vars
    /\ [](\A r \in Requests : pc[r] = "post" => ENABLED AnswerNow(r))

\* a clear has just emptied a log that held a record, every request has
\* already arrived, and one of them, still waiting for the upstream, can
\* complete and leave its record in the log
C33_Witness ==
    /\ last_write.op = "clear"
    /\ last_write.count > 0
    /\ history_items = <<>>
    /\ \A r \in Requests : pc[r] # "idle"
    /\ \E r \in Requests :
          /\ pc[r] = "post"
          /\ ENABLED (AnswerNow(r) /\ Len(history_items') = 1)

\* ---------------------------------------------------------------- C34
IsPrefix(a, b) == Len(a) <= Len(b) /\ a = SubSeq(b, 1, Len(a))

\* records of h with the same timestamp appear in listing, when both are in
\* it, in the order in which they were inserted into h
TiesInInsertionOrder(h, listing) ==
    \A i \in 1..Len(h), j \in 1..Len(h) :
        /\ i < j
        /\ h[i].timestamp = h[j].timestamp
        /\ PosOf(listing, h[j].id) > 0
        => /\ PosOf(listing, h[i].id) > 0
           /\ PosOf(listing, h[i].id) < PosOf(listing, h[j].id)

\* C34: records with the same timestamp are listed in their insertion order
\* among themselves, a list answered since the log last changed is what any
\* further call with that limit answers, and for every limit the answer is a
\* prefix of the full listing.
C34_TiesStable ==
    LET full == sorted_history(history_items, 50)
    IN /\ Len(full) = Len(history_items)
       /\ TiesInInsertionOrder(history_items, full)
       /\ \A limit \in Limits :
             /\ IsPrefix(sorted_history(history_items, limit), full)
             /\ TiesInInsertionOrder(history_items, sorted_history(history_items, limit))
       /\ last_list.fresh =>
             last_list.response = sorted_history(history_items, last_list.limit)

\* two records carry the same timestamp and a list with limit 1 has answered
\* with the one inserted first
C34_Witness ==
    /\ Len(history_items) = 2
    /\ history_items[1].timestamp = history_items[2].timestamp
    /\ history_items[1].id < history_items[2].id
    /\ last_list.fresh
    /\ last_list.limit = 1
    /\ last_list.response = <<history_items[1]>>

====
